---- MODULE Spec2Model ----
(***************************************************************************)
(* Model of the chip calculator core (calculateDistribution) in its two    *)
(* revisions: src/unnamed/part_001 (pyramid branch for three or more       *)
(* denominations) and src/src/chipCalculator.js (greedy-fill branch).      *)
(*                                                                         *)
(* Money is counted in whole cents, so the 0.01 tolerance of the code is   *)
(* one unit (Tolerance) and the arithmetic of the code is exact.           *)
(* A warning string is modelled by a record holding its kind and the       *)
(* values interpolated into the text.                                      *)
(***************************************************************************)
EXTENDS Integers, Sequences, FiniteSets, TLC

(* ------------------------------ bounds --------------------------------- *)
MaxChips == 3
MaxValue == 5
MaxQuantity == 40
MaxPlayers == 2
MaxBuyIn == 120

Values == {1, 2, 3, MaxValue}
Quantities == {1, MaxQuantity}
BuyIns == {0 - MaxBuyIn, 0, 7, 8, 30, 100, MaxBuyIn}
Blinds == {<<1, 1>>, <<2, 4>>}
Variants == {"pyramid", "greedy"}

(* ------------------------- program constants --------------------------- *)
Tolerance == 1
smallTargetCap == 15
minChipsPerPlayer == 20
maxChipsPerPlayer == 30
bigBlindsPerStack == 100
baseTargets == <<25, 15, 10, 6, 4, 3, 2, 2, 2, 2>>
smallestReserveTarget == 20
otherReserveTarget == 10
swapMinimum == 2
swapHeadroom == 10

(* --------------------------- arithmetic -------------------------------- *)
Min(a, b) == IF a <= b THEN a ELSE b
Abs(a) == IF a < 0 THEN 0 - a ELSE a
\* Math.floor(a / b), Math.ceil(a / b), Math.round(a / b) for b > 0;
\* Math.round rounds a half towards plus infinity.
Floor(a, b) == a \div b
Ceil(a, b) == 0 - ((0 - a) \div b)
Round(a, b) == (2 * a + b) \div (2 * b)

\* formatCurrency: no decimals for an integral amount of at least 1.00,
\* two decimals otherwise.
formatCurrency(cents) ==
    IF cents >= 100 /\ cents % 100 = 0
    THEN [decimals |-> 0, units |-> cents \div 100]
    ELSE [decimals |-> 2, units |-> cents]

(* ------------------- [...chips].sort by value, stable ------------------ *)
RECURSIVE InsertByValue(_, _)
InsertByValue(c, s) ==
    IF Len(s) = 0 THEN <<c>>
    ELSE IF c.value < Head(s).value THEN <<c>> \o s
    ELSE <<Head(s)>> \o InsertByValue(c, Tail(s))

RECURSIVE SortByValue(_)
SortByValue(s) ==
    IF Len(s) = 0 THEN <<>>
    ELSE InsertByValue(s[Len(s)], SortByValue(SubSeq(s, 1, Len(s) - 1)))

\* chips.find(c => c.color === color): the first entry of that color.
FindByColor(cs, color) ==
    LET hits == {i \in 1..Len(cs) : cs[i].color = color}
    IN  cs[CHOOSE i \in hits : \A j \in hits : i <= j]

\* Variant: the sort applied to the caller's array itself.
ChipsAfterSortInPlace(cs) == SortByValue(cs)

\* The caller's array after [...chips].sort(...): the spread makes a copy,
\* the sort reorders the copy and leaves the array it was made from alone.
ChipsAfterSortedCopy(cs) == cs

MaxFromInventory(chip, players) == Floor(chip.quantity, players)

VARIABLES variant, buyIn, smallBlind, bigBlind, numPlayers, chipsGiven, chips,
          pc, sortedChips, allocations, running, distribution, warnings, result,
          numChipTypes, values,
          editingChipId, modalOpen, now, presets

vars == <<variant, buyIn, smallBlind, bigBlind, numPlayers, chipsGiven, chips,
          pc, sortedChips, allocations, running, distribution, warnings, result,
          numChipTypes, values, editingChipId, modalOpen, now, presets>>

\* What calculateDistribution only reads (its parameters), and the state of
\* suggestChipValues, which it does not touch.
suggestState == <<numChipTypes, values>>

\* The state of the UI shell and of the preset store (src/unnamed/part_000),
\* which the three functions of the calculator do not touch.
Null == "null"
modal == <<editingChipId, modalOpen>>
shellState == <<modal, now, presets>>
ShellAtRest ==
    /\ editingChipId = Null
    /\ modalOpen = FALSE
    /\ now = 0
    /\ presets = <<>>

params == <<variant, buyIn, smallBlind, bigBlind, numPlayers, chipsGiven,
            suggestState, shellState>>
inputs == <<params, chips>>

\* A chip inventory of n entries with distinct ids and names; with share,
\* every entry carries the colour of the first one.
MakeChips(n, share, f) ==
    [i \in 1..n |->
        [id |-> ToString(i),
         color |-> IF share THEN "c1" ELSE "c" \o ToString(i),
         name |-> "n" \o ToString(i),
         quantity |-> f[i][2],
         value |-> f[i][1]]]

Init ==
    /\ variant \in Variants
    /\ buyIn \in BuyIns
    /\ \E b \in Blinds : smallBlind = b[1] /\ bigBlind = b[2]
    /\ numPlayers \in 1..MaxPlayers
    /\ chipsGiven \in BOOLEAN
    /\ \E n \in 0..MaxChips, share \in BOOLEAN :
         \E f \in [1..n -> Values \X Quantities] :
            chips = IF chipsGiven THEN MakeChips(n, share, f) ELSE <<>>
    /\ pc = "call"
    /\ sortedChips = <<>>
    /\ allocations = <<>>
    /\ running = 0
    /\ distribution = <<>>
    /\ warnings = <<>>
    /\ result = [status |-> "pending"]
    /\ numChipTypes = 0
    /\ values = <<>>
    /\ ShellAtRest

(* ----------------------------- early exits ----------------------------- *)
\* Variant: the test chips.length === 0 alone, without the test for a missing list.
NoChipsOnlyEmpty(given, cs) == given /\ Len(cs) = 0

\* !chips || chips.length === 0
NoChips(given, cs) == ~given \/ Len(cs) = 0

EarlyResult(text) ==
    [distribution |-> <<>>, totalValue |-> 0, isValid |-> FALSE,
     warnings |-> <<[kind |-> text]>>]

ExitNoChips ==
    /\ pc = "call"
    /\ NoChips(chipsGiven, chips)
    /\ result' = EarlyResult("No chips defined")
    /\ pc' = "done"
    /\ UNCHANGED <<inputs, sortedChips, allocations, running, distribution, warnings>>

\* Variant: buyIn < 0.
BuyInRejectedNegative(buy) == buy < 0

\* buyIn <= 0
BuyInRejected(buy) == buy <= 0

ExitBuyIn ==
    /\ pc = "call"
    /\ ~NoChips(chipsGiven, chips)
    /\ BuyInRejected(buyIn)
    /\ result' = EarlyResult("Buy-in must be greater than 0")
    /\ pc' = "done"
    /\ UNCHANGED <<inputs, sortedChips, allocations, running, distribution, warnings>>

\* Variant: no 100 big blind check.
StackWarningNever(buy, minStack) == <<>>

StackWarning(buy, minStack) ==
    IF buy < minStack
    THEN <<[kind |-> "bigBlinds", buyIn |-> formatCurrency(buy),
            minStack |-> formatCurrency(minStack)]>>
    ELSE <<>>

\* The 100 big blind check and the sorted copy of the inventory.  Spreading
\* a missing chip list raises.
Begin ==
    /\ pc = "call"
    /\ ~NoChips(chipsGiven, chips)
    /\ ~BuyInRejected(buyIn)
    /\ IF chipsGiven
       THEN /\ warnings' = StackWarning(buyIn, bigBlind * bigBlindsPerStack)
            /\ sortedChips' = SortByValue(chips)
            /\ chips' = ChipsAfterSortedCopy(chips)
            /\ pc' = "branch"
            /\ UNCHANGED result
       ELSE /\ result' = [raised |-> TRUE]
            /\ pc' = "done"
            /\ UNCHANGED <<warnings, sortedChips, chips>>
    /\ UNCHANGED <<params, allocations, running, distribution>>

(* -------------------------- one denomination --------------------------- *)
Line(chip, qty) ==
    [id |-> chip.id, color |-> chip.color, name |-> chip.name,
     value |-> chip.value, quantity |-> qty, subtotal |-> qty * chip.value]

\* Variant: the quantity without the inventory limit.
SingleQuantityUncapped(chip, buy, players) == Round(buy, chip.value)

SingleQuantity(chip, buy, players) ==
    Min(Round(buy, chip.value), MaxFromInventory(chip, players))

SingleChip ==
    /\ pc = "branch"
    /\ Len(sortedChips) = 1
    /\ distribution' = <<Line(sortedChips[1],
                              SingleQuantity(sortedChips[1], buyIn, numPlayers))>>
    /\ pc' = "totals"
    /\ UNCHANGED <<inputs, sortedChips, allocations, running, warnings, result>>

(* -------------------------- two denominations -------------------------- *)
SmallQty(small, buy, players) ==
    Min(Min(smallTargetCap, Floor(buy, 2 * small.value)),
        MaxFromInventory(small, players))

LargeQty(small, large, buy, players) ==
    Min(Round(buy - SmallQty(small, buy, players) * small.value, large.value),
        MaxFromInventory(large, players))

FinalSmallQty(small, large, buy, players) ==
    LET smallQty == SmallQty(small, buy, players)
        largeQty == LargeQty(small, large, buy, players)
        remainder == buy - smallQty * small.value - largeQty * large.value
        additionalSmall == Round(remainder, small.value)
    IN  smallQty + additionalSmall

\* Variant: a line is pushed whatever its quantity.
PushLineAlways(chip, qty) == <<Line(chip, qty)>>

\* Only a line with a positive quantity is pushed.
PushLine(chip, qty) == IF qty > 0 THEN <<Line(chip, qty)>> ELSE <<>>

TwoChips ==
    /\ pc = "branch"
    /\ Len(sortedChips) = 2
    /\ LET small == sortedChips[1]
           large == sortedChips[2]
       IN  distribution' =
              PushLine(small, FinalSmallQty(small, large, buyIn, numPlayers))
              \o PushLine(large, LargeQty(small, large, buyIn, numPlayers))
    /\ pc' = "totals"
    /\ UNCHANGED <<inputs, sortedChips, allocations, running, warnings, result>>

(* ------------- three or more denominations: shared parts --------------- *)
Ids(cs) == {cs[i].id : i \in 1..Len(cs)}

\* sortedChips.forEach(chip => allocations.set(chip.id, 0))
ZeroAllocations(cs) == [k \in Ids(cs) |-> 0]

RECURSIVE AllocatedValue(_, _)
AllocatedValue(cs, alloc) ==
    IF Len(cs) = 0 THEN 0
    ELSE alloc[Head(cs).id] * Head(cs).value + AllocatedValue(Tail(cs), alloc)

\* Variant: the top-up takes all the room left, whatever the gap.
AdditionalQtyToCap(gap, smallest, current) ==
    MaxFromInventory(smallest, numPlayers) - current

\* Top-up of the smallest denomination by ceil(gap / value), limited to the
\* room left under its per-player maximum.
AdditionalQty(gap, smallest, current) ==
    Min(Ceil(gap, smallest.value),
        MaxFromInventory(smallest, numPlayers) - current)

RECURSIVE BuildFrom(_, _)
BuildFrom(cs, alloc) ==
    IF Len(cs) = 0 THEN <<>>
    ELSE PushLine(Head(cs), alloc[Head(cs).id]) \o BuildFrom(Tail(cs), alloc)

Build ==
    /\ pc = "build"
    /\ distribution' = BuildFrom(sortedChips, allocations)
    /\ pc' = "totals"
    /\ UNCHANGED <<inputs, sortedChips, allocations, running, warnings, result>>

(* ------------------- pyramid branch (src/unnamed/part_001) ------------- *)
\* STEP 1 and 2: quantity min(targets[i], maxQty) per denomination.
RECURSIVE PyramidTargets(_, _)
PyramidTargets(i, alloc) ==
    IF i > Len(sortedChips) THEN alloc
    ELSE PyramidTargets(i + 1,
            [alloc EXCEPT ![sortedChips[i].id] =
                Min(baseTargets[i], MaxFromInventory(sortedChips[i], numPlayers))])

PyramidAllocate ==
    /\ pc = "branch"
    /\ Len(sortedChips) >= 3
    /\ variant = "pyramid"
    /\ allocations' = PyramidTargets(1, ZeroAllocations(sortedChips))
    /\ running' = AllocatedValue(sortedChips, allocations')
    /\ pc' = "reduce"
    /\ UNCHANGED <<inputs, sortedChips, distribution, warnings, result>>

\* The inner while loops of STEP 3; the result is <<qty, totalValue>>.
RECURSIVE DecrementKeeping(_, _, _)
DecrementKeeping(qty, total, value) ==
    IF qty > 0 /\ total > buyIn /\ total - value >= buyIn
    THEN DecrementKeeping(qty - 1, total - value, value)
    ELSE <<qty, total>>

RECURSIVE DecrementAny(_, _, _)
DecrementAny(qty, total, value) ==
    IF qty > 0 /\ total > buyIn
    THEN DecrementAny(qty - 1, total - value, value)
    ELSE <<qty, total>>

\* First pass, from the largest down to the smallest; <<allocations, total>>.
RECURSIVE ReduceKeeping(_, _, _)
ReduceKeeping(i, alloc, total) ==
    IF i >= 1 /\ total > buyIn
    THEN LET chip == sortedChips[i]
             r == DecrementKeeping(alloc[chip.id], total, chip.value)
         IN  ReduceKeeping(i - 1, [alloc EXCEPT ![chip.id] = r[1]], r[2])
    ELSE <<alloc, total>>

\* Second pass, from the largest down to the second smallest.
RECURSIVE ReduceAny(_, _, _)
ReduceAny(i, alloc, total) ==
    IF i >= 2 /\ total > buyIn
    THEN LET chip == sortedChips[i]
             r == DecrementAny(alloc[chip.id], total, chip.value)
         IN  ReduceAny(i - 1, [alloc EXCEPT ![chip.id] = r[1]], r[2])
    ELSE <<alloc, total>>

\* Variant: STEP 3 without its second pass.
PyramidReduceOnePass ==
    /\ pc = "reduce"
    /\ IF running > buyIn
       THEN LET first == ReduceKeeping(Len(sortedChips), allocations, running)
            IN  /\ allocations' = first[1]
                /\ running' = first[2]
       ELSE UNCHANGED <<allocations, running>>
    /\ pc' = "fill"
    /\ UNCHANGED <<inputs, sortedChips, distribution, warnings, result>>

PyramidReduce ==
    /\ pc = "reduce"
    /\ IF running > buyIn
       THEN LET first == ReduceKeeping(Len(sortedChips), allocations, running)
                second == ReduceAny(Len(sortedChips), first[1], first[2])
            IN  /\ allocations' = second[1]
                /\ running' = second[2]
       ELSE UNCHANGED <<allocations, running>>
    /\ pc' = "fill"
    /\ UNCHANGED <<inputs, sortedChips, distribution, warnings, result>>

\* STEP 4
PyramidFill ==
    /\ pc = "fill"
    /\ IF running < buyIn
       THEN LET smallest == sortedChips[1]
                currentSmallest == allocations[smallest.id]
                additionalQty == AdditionalQty(buyIn - running, smallest, currentSmallest)
            IN  /\ allocations' = [allocations EXCEPT
                                     ![smallest.id] = currentSmallest + additionalQty]
                /\ running' = running + additionalQty * smallest.value
       ELSE UNCHANGED <<allocations, running>>
    /\ pc' = "swap"
    /\ UNCHANGED <<inputs, sortedChips, distribution, warnings, result>>

\* STEP 5: a denomination left at 0 is raised to 2, paid for by the smallest.
ToRemove(chip, smallest) == Ceil(swapMinimum * chip.value, smallest.value)

\* Variant: the smallest denomination only has to cover the chips removed.
SwapAllowedNoHeadroom(chip, smallest, alloc) ==
    /\ alloc[chip.id] = 0
    /\ MaxFromInventory(chip, numPlayers) >= swapMinimum
    /\ alloc[smallest.id] >= ToRemove(chip, smallest)

SwapAllowed(chip, smallest, alloc) ==
    /\ alloc[chip.id] = 0
    /\ MaxFromInventory(chip, numPlayers) >= swapMinimum
    /\ alloc[smallest.id] >= ToRemove(chip, smallest) + swapHeadroom

RECURSIVE SwapFrom(_, _)
SwapFrom(i, alloc) ==
    IF i > Len(sortedChips) THEN alloc
    ELSE LET chip == sortedChips[i]
             smallest == sortedChips[1]
         IN  IF SwapAllowed(chip, smallest, alloc)
             THEN SwapFrom(i + 1,
                     [alloc EXCEPT ![chip.id] = swapMinimum,
                                   ![smallest.id] = alloc[smallest.id] - ToRemove(chip, smallest)])
             ELSE SwapFrom(i + 1, alloc)

PyramidSwap ==
    /\ pc = "swap"
    /\ allocations' = SwapFrom(2, allocations)
    /\ pc' = "finetune"
    /\ UNCHANGED <<inputs, sortedChips, running, distribution, warnings, result>>

\* STEP 6
PyramidFineTune ==
    /\ pc = "finetune"
    /\ LET currentTotal == AllocatedValue(sortedChips, allocations)
           smallest == sortedChips[1]
           currentSmallest == allocations[smallest.id]
           additionalQty == AdditionalQty(buyIn - currentTotal, smallest, currentSmallest)
       IN  IF currentTotal < buyIn /\ additionalQty > 0
           THEN allocations' = [allocations EXCEPT
                                  ![smallest.id] = currentSmallest + additionalQty]
           ELSE UNCHANGED allocations
    /\ pc' = "build"
    /\ UNCHANGED <<inputs, sortedChips, running, distribution, warnings, result>>

(* --------------- greedy-fill branch (src/src/chipCalculator.js) -------- *)
\* STEP 1: reserve 20 of the smallest and 10 of every other denomination
\* but the largest, each limited to its per-player maximum.
RECURSIVE ReserveOthers(_, _)
ReserveOthers(i, alloc) ==
    IF i > Len(sortedChips) - 1 THEN alloc
    ELSE ReserveOthers(i + 1,
            [alloc EXCEPT ![sortedChips[i].id] =
                Min(otherReserveTarget, MaxFromInventory(sortedChips[i], numPlayers))])

GreedyReserve ==
    /\ pc = "branch"
    /\ Len(sortedChips) >= 3
    /\ variant = "greedy"
    /\ LET smallest == sortedChips[1]
           smallestReserve == Min(smallestReserveTarget,
                                  MaxFromInventory(smallest, numPlayers))
       IN  allocations' = ReserveOthers(2,
              [ZeroAllocations(sortedChips) EXCEPT ![smallest.id] = smallestReserve])
    /\ running' = buyIn - AllocatedValue(sortedChips, allocations')
    /\ pc' = "greedyfill"
    /\ UNCHANGED <<inputs, sortedChips, distribution, warnings, result>>

\* STEP 2: fill from the largest down; <<allocations, remaining>>.
RECURSIVE FillFrom(_, _, _)
FillFrom(i, alloc, remaining) ==
    IF i >= 1 /\ remaining > 0
    THEN LET chip == sortedChips[i]
             currentQty == alloc[chip.id]
             available == MaxFromInventory(chip, numPlayers) - currentQty
             canFit == Floor(remaining, chip.value)
             addQty == Min(available, canFit)
         IN  IF addQty > 0
             THEN FillFrom(i - 1, [alloc EXCEPT ![chip.id] = currentQty + addQty],
                           remaining - addQty * chip.value)
             ELSE FillFrom(i - 1, alloc, remaining)
    ELSE <<alloc, remaining>>

GreedyFill ==
    /\ pc = "greedyfill"
    /\ LET r == FillFrom(Len(sortedChips), allocations, running)
       IN  /\ allocations' = r[1]
           /\ running' = r[2]
    /\ pc' = "topoff"
    /\ UNCHANGED <<inputs, sortedChips, distribution, warnings, result>>

\* STEP 3
GreedyTopOff ==
    /\ pc = "topoff"
    /\ LET smallest == sortedChips[1]
           currentSmallest == allocations[smallest.id]
           additionalQty == AdditionalQty(running, smallest, currentSmallest)
       IN  IF running > 0 /\ additionalQty > 0
           THEN /\ allocations' = [allocations EXCEPT
                                     ![smallest.id] = currentSmallest + additionalQty]
                /\ running' = running - additionalQty * smallest.value
           ELSE UNCHANGED <<allocations, running>>
    /\ pc' = "upgrade"
    /\ UNCHANGED <<inputs, sortedChips, distribution, warnings, result>>

\* STEP 4: the greedy search for chips to remove; <<toRemove, removeRemaining>>.
RECURSIVE FindChange(_, _, _, _)
FindChange(j, alloc, toRemove, removeRemaining) ==
    IF j < 1 THEN <<toRemove, removeRemaining>>
    ELSE LET candidate == sortedChips[j]
             take == Min(alloc[candidate.id], Floor(removeRemaining, candidate.value))
         IN  IF candidate.value <= removeRemaining /\ take > 0
             THEN FindChange(j - 1, alloc, [toRemove EXCEPT ![candidate.id] = take],
                             removeRemaining - take * candidate.value)
             ELSE FindChange(j - 1, alloc, toRemove, removeRemaining)

\* The loop over the denominations from the smallest up; <<allocations, remaining>>.
RECURSIVE UpgradeFrom(_, _, _)
UpgradeFrom(i, alloc, remaining) ==
    IF i > Len(sortedChips) THEN <<alloc, remaining>>
    ELSE LET chip == sortedChips[i]
             currentQty == alloc[chip.id]
             found == FindChange(Len(sortedChips), alloc, ZeroAllocations(sortedChips),
                                 chip.value - remaining)
         IN  IF /\ currentQty < MaxFromInventory(chip, numPlayers)
                /\ chip.value > remaining
                /\ Abs(found[2]) < Tolerance
             THEN <<[k \in DOMAIN alloc |->
                        (IF k = chip.id THEN currentQty + 1 ELSE alloc[k]) - found[1][k]],
                    0>>
             ELSE UpgradeFrom(i + 1, alloc, remaining)

GreedyUpgrade ==
    /\ pc = "upgrade"
    /\ IF running > 0
       THEN LET r == UpgradeFrom(1, allocations, running)
            IN  /\ allocations' = r[1]
                /\ running' = r[2]
       ELSE UNCHANGED <<allocations, running>>
    /\ pc' = "build"
    /\ UNCHANGED <<inputs, sortedChips, distribution, warnings, result>>

(* ----------------------- totals, warnings, return ---------------------- *)
RECURSIVE SumSubtotals(_)
SumSubtotals(d) == IF Len(d) = 0 THEN 0 ELSE Head(d).subtotal + SumSubtotals(Tail(d))

RECURSIVE SumQuantities(_)
SumQuantities(d) == IF Len(d) = 0 THEN 0 ELSE Head(d).quantity + SumQuantities(Tail(d))

\* Variant: the difference without the absolute value.
IsValidSigned(total, buy) == total - buy < Tolerance

IsValid(total, buy) == Abs(total - buy) < Tolerance

MismatchWarning(total, buy) ==
    IF IsValid(total, buy) THEN <<>>
    ELSE IF buy - total > 0
         THEN <<[kind |-> "short", amount |-> formatCurrency(buy - total)]>>
         ELSE <<[kind |-> "over", amount |-> formatCurrency(total - buy)]>>

CountWarning(count) ==
    IF count < minChipsPerPlayer
    THEN <<[kind |-> "fewChips", count |-> count]>>
    ELSE <<>>

\* The stock check of one line: the inventory entry is looked up by colour.
StockWarning(line, cs, players) ==
    LET originalChip == FindByColor(cs, line.color)
        totalNeeded == line.quantity * players
    IN  IF totalNeeded > originalChip.quantity
        THEN <<[kind |-> "stock", needed |-> totalNeeded, name |-> line.name,
                have |-> originalChip.quantity]>>
        ELSE <<>>

RECURSIVE StockWarnings(_, _, _)
StockWarnings(d, cs, players) ==
    IF Len(d) = 0 THEN <<>>
    ELSE StockWarning(Head(d), cs, players) \o StockWarnings(Tail(d), cs, players)

BlindWarning(cs, blind) ==
    LET smallestAvailable == SortByValue(cs)[1]
    IN  IF smallestAvailable.value > blind
        THEN <<[kind |-> "blind", smallest |-> formatCurrency(smallestAvailable.value),
                smallBlind |-> formatCurrency(blind)]>>
        ELSE <<>>

Recommendation ==
    [minStack |-> bigBlind * bigBlindsPerStack,
     idealChipCount |-> ToString(minChipsPerPlayer) \o "-" \o ToString(maxChipsPerPlayer)]

Totals ==
    /\ pc = "totals"
    /\ LET totalValue == SumSubtotals(distribution)
           totalChips == SumQuantities(distribution)
       IN  /\ warnings' = warnings
                          \o MismatchWarning(totalValue, buyIn)
                          \o CountWarning(totalChips)
                          \o StockWarnings(distribution, chips, numPlayers)
                          \o BlindWarning(chips, smallBlind)
           /\ result' = [distribution |-> distribution,
                         totalValue |-> totalValue,
                         totalChips |-> totalChips,
                         isValid |-> IsValid(totalValue, buyIn),
                         warnings |-> warnings',
                         recommendation |-> Recommendation]
    /\ chips' = ChipsAfterSortedCopy(chips)
    /\ pc' = "done"
    /\ UNCHANGED <<params, sortedChips, allocations, running, distribution>>

Next ==
    \/ ExitNoChips
    \/ ExitBuyIn
    \/ Begin
    \/ SingleChip
    \/ TwoChips
    \/ PyramidAllocate
    \/ PyramidReduce
    \/ PyramidFill
    \/ PyramidSwap
    \/ PyramidFineTune
    \/ GreedyReserve
    \/ GreedyFill
    \/ GreedyTopOff
    \/ GreedyUpgrade
    \/ Build
    \/ Totals

Spec == Init /\ [][Next]_vars

(* ========================= suggestChipValues =========================== *)
MaxChipTypes == 5
MaxSuggestBuyIn == 1000000

SuggestBlinds == {0, 25, 40, 50, 100, 150, 500}
SuggestBuyIns == {50, 300, 400, 1000, 5000, 20000, MaxSuggestBuyIn}

\* 1.00 in cents: the bound of the fractional blinds and the unit of d % 1.
Dollar == 100

allDenominations ==
    <<25, 50, 100, 200, 500, 1000, 2000, 2500, 5000, 10000, 25000, 50000,
      100000, 250000, 500000>>

fallbackDenominations == <<100, 500, 1000, 2500, 10000>>

\* validDenoms[NaN]: the entry pushed when the index is not a number.
Undefined == 0 - 1

Max(a, b) == IF a >= b THEN a ELSE b

IsFractionalBlind(blind) == blind < Dollar \/ 2 * blind < Dollar

\* Variant: the filter d >= bigBlind.
FractionalRemainingFromBigBlind(blind, buy) ==
    SelectSeq(allDenominations,
              LAMBDA d : d >= 2 * blind /\ 2 * d <= Max(buy, 2 * Dollar))

\* allDenominations.filter(d => d > bigBlind && d <= Math.max(buyIn / 2, 1))
FractionalRemaining(blind, buy) ==
    SelectSeq(allDenominations,
              LAMBDA d : d > 2 * blind /\ 2 * d <= Max(buy, 2 * Dollar))

\* The values pushed in the fractional-blind mode.
FractionalValues(blind, buy, n) ==
    LET remaining == FractionalRemaining(blind, buy)
        taken == Max(0, Min(n - 2, Len(remaining)))
    IN  <<blind>> \o (IF n >= 2 THEN <<2 * blind>> ELSE <<>>)
        \o SubSeq(remaining, 1, taken)

\* The filter of the integer-blind mode, with its fallback.
ValidDenoms(blind, buy) ==
    LET minValue == Min(blind, Dollar)
        filtered == SelectSeq(allDenominations,
                        LAMBDA d : /\ d >= minValue
                                   /\ 2 * d <= Max(buy, 4 * blind)
                                   /\ d % Dollar = 0)
    IN  IF Len(filtered) = 0 THEN fallbackDenominations ELSE filtered

\* validDenoms[Math.round(i * step)] with step = (length - 1) / (n - 1); with
\* n = 1 the step is Infinity, 0 * Infinity is NaN and the entry is undefined.
SpacedValue(validDenoms, n, i) ==
    IF n = 1 THEN Undefined
    ELSE validDenoms[Round(i * (Len(validDenoms) - 1), n - 1) + 1]

\* The values pushed in the integer-blind mode.
IntegerValues(blind, buy, n) ==
    LET validDenoms == ValidDenoms(blind, buy)
    IN  IF Len(validDenoms) <= n THEN validDenoms
        ELSE [i \in 1..Max(n, 0) |-> SpacedValue(validDenoms, n, i - 1)]

\* [...new Set(values)]: the first occurrence of every value, in order.
RECURSIVE Unique(_)
Unique(s) ==
    IF Len(s) = 0 THEN <<>>
    ELSE LET front == Unique(SubSeq(s, 1, Len(s) - 1))
             last == s[Len(s)]
         IN  IF \E i \in 1..Len(front) : front[i] = last THEN front
             ELSE Append(front, last)

\* .sort((a, b) => a - b): ascending, undefined entries last.
RECURSIVE InsertNumber(_, _)
InsertNumber(x, s) ==
    IF Len(s) = 0 THEN <<x>>
    ELSE IF Head(s) = Undefined \/ (x # Undefined /\ x < Head(s)) THEN <<x>> \o s
    ELSE <<Head(s)>> \o InsertNumber(x, Tail(s))

RECURSIVE SortNumbers(_)
SortNumbers(s) ==
    IF Len(s) = 0 THEN <<>>
    ELSE InsertNumber(s[Len(s)], SortNumbers(SubSeq(s, 1, Len(s) - 1)))

\* Variant: the sort without the Set.
SortedOnly(s) == SortNumbers(s)

UniqueSorted(s) == SortNumbers(Unique(s))

idle == <<variant, bigBlind, numPlayers, chipsGiven, chips, sortedChips,
          allocations, running, distribution, warnings, shellState>>

InitSuggest ==
    /\ smallBlind \in SuggestBlinds
    /\ buyIn \in SuggestBuyIns
    /\ numChipTypes \in 0..MaxChipTypes
    /\ values = <<>>
    /\ pc = "suggest"
    /\ result = [status |-> "pending"]
    /\ variant = "pyramid"
    /\ bigBlind = 2 * smallBlind
    /\ numPlayers = 1
    /\ chipsGiven = TRUE
    /\ chips = <<>>
    /\ sortedChips = <<>>
    /\ allocations = <<>>
    /\ running = 0
    /\ distribution = <<>>
    /\ warnings = <<>>
    /\ ShellAtRest

SuggestFractional ==
    /\ pc = "suggest"
    /\ IsFractionalBlind(smallBlind)
    /\ values' = FractionalValues(smallBlind, buyIn, numChipTypes)
    /\ pc' = "unique"
    /\ UNCHANGED <<idle, smallBlind, buyIn, numChipTypes, result>>

SuggestInteger ==
    /\ pc = "suggest"
    /\ ~IsFractionalBlind(smallBlind)
    /\ values' = IntegerValues(smallBlind, buyIn, numChipTypes)
    /\ pc' = "unique"
    /\ UNCHANGED <<idle, smallBlind, buyIn, numChipTypes, result>>

SuggestReturn ==
    /\ pc = "unique"
    /\ result' = [values |-> UniqueSorted(values)]
    /\ pc' = "suggested"
    /\ UNCHANGED <<idle, smallBlind, buyIn, numChipTypes, values>>

NextSuggest ==
    \/ SuggestFractional
    \/ SuggestInteger
    \/ SuggestReturn

SpecSuggest == InitSuggest /\ [][NextSuggest]_vars

(* ========================= validateChipValues ========================== *)
maxRatio == 10

ValidateValues == {1, 3, 10, 11, 40}
ValidateBlinds == {0, 1, 2, 6}
ValidateBuyIns == {8, MaxBuyIn}

\* The suggestions pushed for a non-empty inventory, in order.
SmallestSuggestion(sorted, blind) ==
    IF sorted[1].value > blind
    THEN <<[kind |-> "smallestLarger", smallest |-> sorted[1].value, smallBlind |-> blind]>>
    ELSE <<>>

\* Variant: only a chip strictly below the small blind counts.
BlindChipSuggestionBelow(sorted, blind) ==
    IF \E i \in 1..Len(sorted) : sorted[i].value < blind
    THEN <<>>
    ELSE <<[kind |-> "considerChip", smallBlind |-> blind, bigBlind |-> blind * 2]>>

BlindChipSuggestion(sorted, blind) ==
    IF \E i \in 1..Len(sorted) : sorted[i].value <= blind * 2
    THEN <<>>
    ELSE <<[kind |-> "considerChip", smallBlind |-> blind, bigBlind |-> blind * 2]>>

\* Variant: ratio >= 10.
RatioAtLeast(lower, upper) == upper.value >= maxRatio * lower.value

\* sortedChips[i].value / sortedChips[i - 1].value > 10, the division by 0
\* giving Infinity (or NaN for 0 / 0, which is not greater than 10).
RatioTooLarge(lower, upper) == upper.value > maxRatio * lower.value

RECURSIVE GapSuggestions(_, _)
GapSuggestions(sorted, i) ==
    IF i > Len(sorted) THEN <<>>
    ELSE (IF RatioTooLarge(sorted[i - 1], sorted[i])
          THEN <<[kind |-> "gap", lower |-> sorted[i - 1].name, upper |-> sorted[i].name]>>
          ELSE <<>>)
         \o GapSuggestions(sorted, i + 1)

validateChipValues(blind, buy, cs) ==
    IF Len(cs) = 0
    THEN [isOptimal |-> FALSE, suggestions |-> <<[kind |-> "Add at least one chip type"]>>]
    ELSE LET sorted == SortByValue(cs)
             suggestions == SmallestSuggestion(sorted, blind)
                            \o BlindChipSuggestion(sorted, blind)
                            \o GapSuggestions(sorted, 2)
         IN  [isOptimal |-> Len(suggestions) = 0, suggestions |-> suggestions]

InitValidate ==
    /\ smallBlind \in ValidateBlinds
    /\ buyIn \in ValidateBuyIns
    /\ \E n \in 0..MaxChips :
         \E f \in [1..n -> ValidateValues \X {MaxQuantity}] :
            chips = MakeChips(n, FALSE, f)
    /\ chipsGiven = TRUE
    /\ pc = "validate"
    /\ result = [status |-> "pending"]
    /\ variant = "pyramid"
    /\ bigBlind = 2 * smallBlind
    /\ numPlayers = 1
    /\ sortedChips = <<>>
    /\ allocations = <<>>
    /\ running = 0
    /\ distribution = <<>>
    /\ warnings = <<>>
    /\ numChipTypes = 0
    /\ values = <<>>
    /\ ShellAtRest

ValidateEmpty ==
    /\ pc = "validate"
    /\ Len(chips) = 0
    /\ result' = validateChipValues(smallBlind, buyIn, chips)
    /\ pc' = "validated"
    /\ UNCHANGED <<inputs, sortedChips, allocations, running, distribution, warnings>>

Validate ==
    /\ pc = "validate"
    /\ Len(chips) > 0
    /\ result' = validateChipValues(smallBlind, buyIn, chips)
    /\ chips' = ChipsAfterSortedCopy(chips)
    /\ pc' = "validated"
    /\ UNCHANGED <<params, sortedChips, allocations, running, distribution, warnings>>

NextValidate ==
    \/ ValidateEmpty
    \/ Validate

SpecValidate == InitValidate /\ [][NextValidate]_vars

(* ------ calculateDistribution and validateChipValues, either call ------ *)
InitCore == Init \/ InitValidate

NextCore ==
    \/ Next
    \/ NextValidate

SpecCore == InitCore /\ [][NextCore]_vars

(* ================= chip inventory of the UI shell ====================== *)
\* src/unnamed/part_000; amounts in cents, as everywhere.
\* The clock reading of the last event handled; every handler runs at a
\* later reading than the one before it.
MaxClock == 5

\* The options of the colour select: the four default colours and one more.
ColorOptions ==
    {[color |-> "#FFFFFF", name |-> "White"],
     [color |-> "#E53935", name |-> "Red"],
     [color |-> "#1E88E5", name |-> "Blue"],
     [color |-> "#212121", name |-> "Black"],
     [color |-> "#43A047", name |-> "Green"]}

\* What parseInt and parseFloat make of the two fields of the modal; 0 also
\* stands for an empty or non-numeric field (NaN is falsy).
QuantityFields == {0, 20}
ValueFields == {0 - 100, 0, 300}
defaultQuantity == 100

getDefaultChips ==
    <<[id |-> "1", color |-> "#FFFFFF", name |-> "White", quantity |-> 100, value |-> 50],
      [id |-> "2", color |-> "#E53935", name |-> "Red", quantity |-> 100, value |-> 100],
      [id |-> "3", color |-> "#1E88E5", name |-> "Blue", quantity |-> 50, value |-> 500],
      [id |-> "4", color |-> "#212121", name |-> "Black", quantity |-> 50, value |-> 2500]>>

\* Date.now().toString() at clock value t.
Stamp(t) == "t" \o ToString(t)

\* chips.findIndex(c => c.id === id), 0 when there is none.
IndexById(cs, id) ==
    IF \E i \in 1..Len(cs) : cs[i].id = id
    THEN CHOOSE i \in 1..Len(cs) :
            cs[i].id = id /\ \A j \in 1..(i - 1) : cs[j].id # id
    ELSE 0

\* Variant: the colour is never found.
ExistingIndexNever(cs, color) == 0

\* chips.findIndex(c => c.color === color), 0 when there is none.
ExistingIndex(cs, color) ==
    IF \E i \in 1..Len(cs) : cs[i].color = color
    THEN CHOOSE i \in 1..Len(cs) :
            cs[i].color = color /\ \A j \in 1..(i - 1) : cs[j].color # color
    ELSE 0

\* chips.filter(c => c.id !== id)
RECURSIVE WithoutId(_, _)
WithoutId(cs, id) ==
    IF Len(cs) = 0 THEN <<>>
    ELSE (IF Head(cs).id = id THEN <<>> ELSE <<Head(cs)>>) \o WithoutId(Tail(cs), id)

\* Edit mode: the chip of editingChipId, if it is still there, takes the
\* quantity, and the value when one was given.
EditedChips(cs, id, quantity, value) ==
    LET i == IndexById(cs, id)
    IN  IF i = 0 THEN cs
        ELSE [cs EXCEPT ![i] = [cs[i] EXCEPT !.quantity = quantity,
                                             !.value = IF value > 0 THEN value ELSE cs[i].value]]

\* Add mode: a colour already in the inventory is updated, a new one pushed.
AddedChips(cs, id, option, quantity, value) ==
    LET existingIndex == ExistingIndex(cs, option.color)
    IN  IF existingIndex > 0
        THEN [cs EXCEPT ![existingIndex] =
                [cs[existingIndex] EXCEPT
                    !.quantity = quantity,
                    !.value = IF value > 0 THEN value ELSE cs[existingIndex].value]]
        ELSE Append(cs, [id |-> id, color |-> option.color, name |-> option.name,
                         quantity |-> quantity,
                         value |-> IF value > 0 THEN value ELSE Dollar])

\* The handler runs one clock reading after the last one.
Tick ==
    /\ now < MaxClock
    /\ now' = now + 1

calculatorAtRest == <<variant, buyIn, smallBlind, bigBlind, numPlayers, chipsGiven,
                      suggestState, pc, sortedChips, allocations, running,
                      distribution, warnings, result>>

InitInventory ==
    /\ chips = getDefaultChips
    /\ ShellAtRest
    /\ pc = "shell"
    /\ variant = "pyramid"
    /\ buyIn = 5000
    /\ smallBlind = 50
    /\ bigBlind = 100
    /\ numPlayers = 6
    /\ chipsGiven = TRUE
    /\ sortedChips = <<>>
    /\ allocations = <<>>
    /\ running = 0
    /\ distribution = <<>>
    /\ warnings = <<>>
    /\ result = [status |-> "pending"]
    /\ numChipTypes = 0
    /\ values = <<>>

openAddChipModal ==
    /\ pc = "shell"
    /\ ~modalOpen
    /\ editingChipId' = Null
    /\ modalOpen' = TRUE
    /\ Tick
    /\ UNCHANGED <<calculatorAtRest, chips, presets>>

openEditChipModal ==
    /\ pc = "shell"
    /\ ~modalOpen
    /\ \E i \in 1..Len(chips) :
          editingChipId' = chips[IndexById(chips, chips[i].id)].id
    /\ modalOpen' = TRUE
    /\ Tick
    /\ UNCHANGED <<calculatorAtRest, chips, presets>>

closeAddChipModal ==
    /\ pc = "shell"
    /\ modalOpen
    /\ modalOpen' = FALSE
    /\ editingChipId' = Null
    /\ Tick
    /\ UNCHANGED <<calculatorAtRest, chips, presets>>

\* The delete button of a chip of the list.
DeleteChip ==
    /\ pc = "shell"
    /\ \E i \in 1..Len(chips) : chips' = WithoutId(chips, chips[i].id)
    /\ Tick
    /\ UNCHANGED <<calculatorAtRest, modal, presets>>

handleSaveChip ==
    /\ pc = "shell"
    /\ modalOpen
    /\ Tick
    /\ \E option \in ColorOptions, quantityField \in QuantityFields,
          value \in ValueFields :
          LET quantity == IF quantityField = 0 THEN defaultQuantity ELSE quantityField
          IN  IF editingChipId # Null
              THEN chips' = SortByValue(EditedChips(chips, editingChipId, quantity, value))
              ELSE chips' = SortByValue(AddedChips(chips, Stamp(now'), option,
                                                   quantity, value))
    /\ modalOpen' = FALSE
    /\ editingChipId' = Null
    /\ UNCHANGED <<calculatorAtRest, presets>>

NextInventory ==
    \/ openAddChipModal
    \/ openEditChipModal
    \/ closeAddChipModal
    \/ DeleteChip
    \/ handleSaveChip

SpecInventory == InitInventory /\ [][NextInventory]_vars

(* ============================ preset store ============================= *)
\* src/unnamed/part_000, lines 67-137: the presets in local storage.
PresetNames == {"home", "club"}
PresetChips == {getDefaultChips, SubSeq(getDefaultChips, 1, 2)}

\* Variant: the name is never found.
PresetIndexNever(ps, name) == 0

\* presets.findIndex(p => p.name === name), 0 when there is none.
PresetIndex(ps, name) ==
    IF \E i \in 1..Len(ps) : ps[i].name = name
    THEN CHOOSE i \in 1..Len(ps) :
            ps[i].name = name /\ \A j \in 1..(i - 1) : ps[j].name # name
    ELSE 0

\* getPresets().filter(p => p.id !== id)
RECURSIVE PresetsWithoutId(_, _)
PresetsWithoutId(ps, id) ==
    IF Len(ps) = 0 THEN <<>>
    ELSE (IF Head(ps).id = id THEN <<>> ELSE <<Head(ps)>>)
         \o PresetsWithoutId(Tail(ps), id)

\* The store after savePreset at clock reading t, when the write succeeds.
SavedPresets(ps, name, cs, settings, t) ==
    LET existingIndex == PresetIndex(ps, name)
        preset == [id |-> IF existingIndex > 0 THEN ps[existingIndex].id ELSE Stamp(t),
                   name |-> name,
                   chips |-> cs,
                   gameSettings |-> settings,
                   updatedAt |-> t]
    IN  IF existingIndex > 0
        THEN [ps EXCEPT ![existingIndex] = preset]
        ELSE Append(ps, preset)

gameSettings ==
    [buyIn |-> buyIn, players |-> numPlayers, smallBlind |-> smallBlind,
     bigBlind |-> bigBlind]

storeAtRest == <<variant, buyIn, smallBlind, bigBlind, numPlayers, chipsGiven,
                 suggestState, chips, sortedChips, allocations, running,
                 distribution, warnings, modal, pc>>

InitPresets ==
    /\ presets = <<>>
    /\ now = 0
    /\ editingChipId = Null
    /\ modalOpen = FALSE
    /\ chips = getDefaultChips
    /\ pc = "store"
    /\ variant = "pyramid"
    /\ buyIn = 5000
    /\ smallBlind = 50
    /\ bigBlind = 100
    /\ numPlayers = 6
    /\ chipsGiven = TRUE
    /\ sortedChips = <<>>
    /\ allocations = <<>>
    /\ running = 0
    /\ distribution = <<>>
    /\ warnings = <<>>
    /\ result = [status |-> "pending"]
    /\ numChipTypes = 0
    /\ values = <<>>

\* savePreset(name, chips, gameSettings); Date.now() reads the clock, which
\* may not have advanced since the last call. localStorage.setItem either
\* succeeds or throws, and then the function returns false.
savePreset ==
    /\ pc = "store"
    /\ \E name \in PresetNames, cs \in PresetChips, t \in {now, now + 1},
          written \in BOOLEAN :
          /\ t <= MaxClock
          /\ now' = t
          /\ presets' = IF written
                        THEN SavedPresets(presets, name, cs, gameSettings, t)
                        ELSE presets
          /\ result' = [call |-> "savePreset", name |-> name, returned |-> written]
    /\ UNCHANGED storeAtRest

\* deletePreset(id), for the id of a stored preset or an id not in the store.
deletePreset ==
    /\ pc = "store"
    /\ \E id \in {presets[i].id : i \in 1..Len(presets)} \cup {Stamp(0 - 1)},
          written \in BOOLEAN :
          /\ presets' = IF written THEN PresetsWithoutId(presets, id) ELSE presets
          /\ result' = [call |-> "deletePreset", id |-> id, returned |-> written]
    /\ UNCHANGED <<storeAtRest, now>>

NextPresets ==
    \/ savePreset
    \/ deletePreset

SpecPresets == InitPresets /\ [][NextPresets]_vars

(* ======================= handleCalculate (UI shell) ==================== *)
\* src/unnamed/part_000, lines 435-464.
CalculateValues == {50, 100, 500}
CalculateBlinds == {25, 50, 100, 500}
CalculateBuyIns == {0 - 5000, 200, 5000, 20000}
CalculatePlayers == {2, 6}
NaN == "NaN"

suggestChipValues(blind, buy, n) ==
    UniqueSorted(IF IsFractionalBlind(blind)
                 THEN FractionalValues(blind, buy, n)
                 ELSE IntegerValues(blind, buy, n))

\* sortedChips.forEach((chip, index) => ...): the chip of the inventory with
\* the id of the index-th cheapest chip takes the index-th suggested value.
RECURSIVE ApplySuggested(_, _, _, _)
ApplySuggested(cs, sorted, suggestedValues, index) ==
    IF index > Len(sorted) THEN cs
    ELSE LET at == IndexById(cs, sorted[index].id)
         IN  ApplySuggested(
                 IF index <= Len(suggestedValues) /\ at > 0
                 THEN [cs EXCEPT ![at].value = suggestedValues[index]]
                 ELSE cs,
                 sorted, suggestedValues, index + 1)

HasUndefinedValue(cs) == \E i \in 1..Len(cs) : cs[i].value = Undefined

\* An inventory as the shell keeps it: the first n default colours, positive
\* values, ascending by value.
InitCalculate ==
    /\ variant \in Variants
    /\ buyIn \in CalculateBuyIns
    /\ smallBlind \in CalculateBlinds
    /\ bigBlind = 2 * smallBlind
    /\ numPlayers \in CalculatePlayers
    /\ \E n \in 0..MaxChips :
         \E f \in [1..n -> CalculateValues] :
            chips = SortByValue(
                       [i \in 1..n |->
                           [id |-> ToString(i),
                            color |-> "c" \o ToString(i),
                            name |-> "n" \o ToString(i),
                            quantity |-> defaultQuantity,
                            value |-> f[i]]])
    /\ chipsGiven = TRUE
    /\ pc = "clicked"
    /\ sortedChips = <<>>
    /\ allocations = <<>>
    /\ running = 0
    /\ distribution = <<>>
    /\ warnings = <<>>
    /\ result = [status |-> "pending"]
    /\ numChipTypes = 0
    /\ values = <<>>
    /\ ShellAtRest

\* The auto-apply block and the call of calculateDistribution, whose steps
\* follow from pc = "call".
handleCalculate ==
    /\ pc = "clicked"
    /\ chips' = IF Len(chips) > 0
                THEN SortByValue(
                        ApplySuggested(chips, SortByValue(chips),
                            suggestChipValues(smallBlind, buyIn, Len(chips)), 1))
                ELSE chips
    /\ pc' = IF HasUndefinedValue(chips') /\ ~BuyInRejected(buyIn)
             THEN "callUndefined"
             ELSE "call"
    /\ UNCHANGED <<params, sortedChips, allocations, running, distribution,
                   warnings, result>>

\* calculateDistribution on one chip whose value is undefined: the quantity
\* Math.round(buyIn / undefined) is NaN, and so are the subtotal and both
\* totals; of the warnings only the 100 big blind one and "Over by $NaN"
\* can appear, every other comparison with NaN or undefined being false.
CalculateUndefinedValue ==
    /\ pc = "callUndefined"
    /\ Len(chips) = 1
    /\ sortedChips' = chips
    /\ distribution' = <<[id |-> chips[1].id, color |-> chips[1].color,
                          name |-> chips[1].name, quantity |-> NaN,
                          value |-> Undefined, subtotal |-> NaN]>>
    /\ warnings' = StackWarning(buyIn, bigBlind * bigBlindsPerStack)
                   \o <<[kind |-> "over", amount |-> [decimals |-> 2, units |-> NaN]]>>
    /\ result' = [distribution |-> distribution',
                  totalValue |-> NaN,
                  totalChips |-> NaN,
                  isValid |-> FALSE,
                  warnings |-> warnings',
                  recommendation |-> Recommendation]
    /\ pc' = "done"
    /\ UNCHANGED <<inputs, allocations, running>>

NextCalculate ==
    \/ handleCalculate
    \/ CalculateUndefinedValue
    \/ Next

SpecCalculate == InitCalculate /\ [][NextCalculate]_vars

(* ============================ properties =============================== *)
\* The call has returned: by an early exit, or by the return statement at
\* the end of the function.
Done == pc = "done"
EarlyExit == Done /\ (~chipsGiven \/ Len(chips) = 0 \/ buyIn <= 0)
FullReturn == Done /\ chipsGiven /\ Len(chips) > 0 /\ buyIn > 0
Returned == Done /\ "distribution" \in DOMAIN result

\* The inventory entry a returned line was built from.
OwnChip(line) == CHOOSE c \in {chips[i] : i \in 1..Len(chips)} : c.id = line.id

\* cap = floor(quantity / numPlayers), stated without the division.
IsCap(cap, chip) ==
    cap * numPlayers <= chip.quantity /\ chip.quantity < (cap + 1) * numPlayers

\* r = round(amount / value), a half rounding up, stated without the division.
IsRounded(r, amount, value) ==
    (2 * r - 1) * value <= 2 * amount /\ 2 * amount < (2 * r + 1) * value

RECURSIVE TotalOf(_, _)
TotalOf(d, weighted) ==
    IF d = <<>> THEN 0
    ELSE (IF weighted THEN d[1].quantity * d[1].value ELSE d[1].quantity)
         + TotalOf(Tail(d), weighted)

KindsOf(ws) == {ws[i].kind : i \in 1..Len(ws)}

\* C1 (as claimed): with exactly two denominations, the returned quantity of
\* the small denomination never exceeds floor(small.inventory / numPlayers).
C1_SmallWithinCap ==
    (FullReturn /\ Len(chips) = 2) =>
        \A i \in 1..Len(result.distribution) :
            LET line == result.distribution[i]
            IN  line.id = sortedChips[1].id =>
                    line.quantity * numPlayers <= sortedChips[1].quantity

\* C2 (as claimed): in every returned result, the early exits included,
\* isValid is true exactly when |totalValue - buyIn| < 0.01.
C2_IsValidIffCloseEverywhere ==
    Returned => (result.isValid <=> Abs(result.totalValue - buyIn) < Tolerance)

\* C2 (amended): a call that takes no early exit returns isValid true exactly
\* when |totalValue - buyIn| < 0.01; an early exit returns isValid false and
\* totalValue 0.
C2_IsValidIffClose ==
    /\ FullReturn => (result.isValid <=> Abs(result.totalValue - buyIn) < Tolerance)
    /\ (EarlyExit /\ Returned) => (~result.isValid /\ result.totalValue = 0)

C2_Witness ==
    /\ FullReturn
    /\ Len(result.distribution) >= 2
    /\ result.isValid
    /\ result.totalValue = buyIn

\* C3: with exactly one denomination the result has one line, of quantity
\* min(round(buyIn / value), floor(inventory / numPlayers)) and of subtotal
\* quantity x value.
C3_SingleDenomination ==
    (FullReturn /\ Len(chips) = 1) =>
        /\ Len(result.distribution) = 1
        /\ LET line == result.distribution[1]
               chip == chips[1]
           IN  /\ line.subtotal = line.quantity * chip.value
               /\ \E r \in 0..(2 * buyIn), cap \in 0..chip.quantity :
                     /\ IsRounded(r, buyIn, chip.value)
                     /\ IsCap(cap, chip)
                     /\ line.quantity = IF r <= cap THEN r ELSE cap

\* One denomination, the inventory limit binding below the rounded quotient.
C3_Witness ==
    /\ FullReturn
    /\ Len(chips) = 1
    /\ result.distribution[1].quantity > 0
    /\ result.distribution[1].quantity * chips[1].value < buyIn - chips[1].value

\* C4 (as claimed): buyIn <= 0 gives isValid false and exactly the warning
\* "Buy-in must be greater than 0", whatever the chip list is.
C4_BuyInWarningAnyChips ==
    (Done /\ buyIn <= 0) =>
        /\ "raised" \notin DOMAIN result
        /\ ~result.isValid
        /\ result.warnings = <<[kind |-> "Buy-in must be greater than 0"]>>

\* C4 (amended): buyIn <= 0 with a chip list that is neither missing nor
\* empty gives isValid false and exactly the warning "Buy-in must be greater
\* than 0".
C4_BuyInWarning ==
    (Done /\ buyIn <= 0 /\ chipsGiven /\ Len(chips) > 0) =>
        /\ "raised" \notin DOMAIN result
        /\ ~result.isValid
        /\ result.warnings = <<[kind |-> "Buy-in must be greater than 0"]>>

C4_Witness == Done /\ buyIn = 0 /\ chipsGiven /\ Len(chips) = 2

\* C5: an empty or missing chip list gives, without raising, an empty
\* distribution, totalValue 0, isValid false and exactly the warning
\* "No chips defined", for every buyIn.
C5_NoChips ==
    (Done /\ (~chipsGiven \/ Len(chips) = 0)) =>
        /\ "raised" \notin DOMAIN result
        /\ result.distribution = <<>>
        /\ result.totalValue = 0
        /\ ~result.isValid
        /\ result.warnings = <<[kind |-> "No chips defined"]>>

\* A missing chip list with a positive buy-in.
C5_Witness == Done /\ ~chipsGiven /\ buyIn > 0

\* C6: in every returned result, the early exits included,
\* totalChips is the sum of the quantities and totalValue the sum of
\* quantity x value over the returned lines.
C6_TotalsEverywhere ==
    Returned =>
        /\ "totalChips" \in DOMAIN result
        /\ result.totalChips = TotalOf(result.distribution, FALSE)
        /\ result.totalValue = TotalOf(result.distribution, TRUE)

\* C7: no returned line has a negative quantity.
C7_NoNegativeQuantity ==
    Returned =>
        \A i \in 1..Len(result.distribution) : result.distribution[i].quantity >= 0

\* Two denominations, the folded small quantity below zero: its line is
\* left out of the result.
C7_Witness ==
    /\ FullReturn
    /\ Len(chips) = 2
    /\ FinalSmallQty(sortedChips[1], sortedChips[2], buyIn, numPlayers) < 0
    /\ Len(result.distribution) = 1

\* C8 (as claimed): every warning of a result that is not an early exit is
\* a shortage/overage, 'only N chips', stock or blind-change message, each
\* present exactly under its condition, and the list is empty when none of
\* the four conditions holds.
C8_FourKinds ==
    FullReturn =>
        /\ KindsOf(result.warnings) \subseteq {"short", "over", "fewChips", "stock", "blind"}
        /\ ( /\ result.isValid
             /\ result.totalChips >= minChipsPerPlayer
             /\ \A i \in 1..Len(result.distribution) :
                   result.distribution[i].quantity * numPlayers
                      <= FindByColor(chips, result.distribution[i].color).quantity
             /\ \E i \in 1..Len(chips) : chips[i].value <= smallBlind )
           => result.warnings = <<>>

\* C8 (amended): every warning of a result that is not an early exit is of
\* one of five kinds: the four of the claim and a 'less than 100 big blinds'
\* message, present exactly when buyIn < bigBlind x 100.  The shortage
\* message is present exactly when the result is not valid and under the
\* buy-in, the overage message exactly when it is not valid and over, the
\* 'only N chips' message exactly when totalChips < 20, the blind-change
\* message exactly when every inventory value exceeds smallBlind; a stock
\* message names a returned line and its quantity x numPlayers.
C8_FiveKinds ==
    FullReturn =>
        LET ws == result.warnings
            kinds == KindsOf(ws)
        IN  /\ kinds \subseteq {"bigBlinds", "short", "over", "fewChips", "stock", "blind"}
            /\ ("bigBlinds" \in kinds) <=> (buyIn < bigBlind * bigBlindsPerStack)
            /\ ("short" \in kinds) <=> (~result.isValid /\ result.totalValue < buyIn)
            /\ ("over" \in kinds) <=> (~result.isValid /\ result.totalValue > buyIn)
            /\ ("fewChips" \in kinds) <=> (result.totalChips < minChipsPerPlayer)
            /\ ("blind" \in kinds) <=> (\A i \in 1..Len(chips) : chips[i].value > smallBlind)
            /\ \A i \in 1..Len(ws) :
                  ws[i].kind = "stock" =>
                     \E j \in 1..Len(result.distribution) :
                        /\ ws[i].name = result.distribution[j].name
                        /\ ws[i].needed = result.distribution[j].quantity * numPlayers
                        /\ ws[i].needed > ws[i].have
            /\ \A i, j \in 1..Len(ws) :
                  (i # j /\ ws[i].kind # "stock") => ws[i].kind # ws[j].kind

\* A valid result of 20 chips or more that still carries the 100 big blind
\* warning, and nothing else.
C8_Witness ==
    /\ FullReturn
    /\ result.isValid
    /\ result.totalChips >= minChipsPerPlayer
    /\ KindsOf(result.warnings) = {"bigBlinds"}

\* C9 (as claimed): every returned result, the early exits included, has a
\* recommendation with minStack = bigBlind x 100 and idealChipCount "20-30".
C9_RecommendationEverywhere ==
    Returned =>
        /\ "recommendation" \in DOMAIN result
        /\ result.recommendation.minStack = bigBlind * 100
        /\ result.recommendation.idealChipCount = "20-30"

\* C10 (as claimed): a returned line has a stock-shortage warning exactly
\* when its quantity x numPlayers exceeds the inventory count of the entry
\* it was built from, also when two inventory entries share a colour.
C10_StockWarningIffShort ==
    FullReturn =>
        \A j \in 1..Len(result.distribution) :
            LET line == result.distribution[j]
            IN  (\E i \in 1..Len(result.warnings) :
                    /\ result.warnings[i].kind = "stock"
                    /\ result.warnings[i].name = line.name)
                <=> (line.quantity * numPlayers > OwnChip(line).quantity)

\* C11: calculateDistribution and validateChipValues leave the caller's chip
\* inventory as it was: the same entries in the same order, every entry with
\* the same id, color, name, quantity and value, in every step of every branch.
C11_InventoryUnchanged == [][chips' = chips /\ chipsGiven' = chipsGiven]_vars

\* A call that has returned on an inventory that was not in ascending order
\* of value: the sorted copy differs from the caller's array.
C11_Witness ==
    /\ FullReturn
    /\ Len(chips) >= 3
    /\ sortedChips # chips
    /\ \E i \in 1..Len(chips) - 1 : chips[i].value > chips[i + 1].value

Suggested == pc = "suggested"

\* C12: the sequence returned by suggestChipValues is strictly ascending,
\* hence without duplicate, in both modes.
C12_StrictlyAscending ==
    Suggested =>
        \A i, j \in 1..Len(result.values) :
            i < j => /\ result.values[i] # Undefined
                     /\ result.values[j] # Undefined
                     /\ result.values[i] < result.values[j]

\* A call in which the pushed values held a duplicate (smallBlind and
\* bigBlind both 0) that the Set removed.
C12_Witness ==
    /\ Suggested
    /\ Len(values) > Len(result.values)
    /\ Len(result.values) >= 2

PoolSet == {allDenominations[i] : i \in 1..Len(allDenominations)}

\* The pool values above bigBlind and up to max(buyIn / 2, 1).
EligibleAboveBigBlind ==
    {d \in PoolSet : d > 2 * smallBlind /\ 2 * d <= (IF buyIn >= 2 * Dollar THEN buyIn ELSE 2 * Dollar)}

\* The result is smallBlind, 2 x smallBlind and then the first
\* numChipTypes - 2 eligible pool values, in ascending order.
BlindsThenPool ==
    LET out == result.values
        rest == {out[i] : i \in 3..Len(out)}
    IN  /\ Len(out) >= 2
        /\ out[1] = smallBlind
        /\ out[2] = 2 * smallBlind
        /\ Len(out) - 2 <= numChipTypes - 2
        /\ \A i \in 3..Len(out) : out[i] \in EligibleAboveBigBlind
        /\ \A i, j \in 3..Len(out) : i < j => out[i] < out[j]
        /\ \A d \in EligibleAboveBigBlind :
              \/ d \in rest
              \/ Len(out) = numChipTypes /\ \A e \in rest : e < d

\* C13 (as claimed): in the fractional-blind mode (smallBlind < 1) with
\* numChipTypes >= 2 the result is exactly smallBlind, 2 x smallBlind and the
\* first numChipTypes - 2 pool values above 2 x smallBlind and up to
\* max(buyIn / 2, 1).
C13_FractionalAnyBlind ==
    (Suggested /\ smallBlind < Dollar /\ numChipTypes >= 2) => BlindsThenPool

\* C13 (amended): the same for 0 < smallBlind < 1; with smallBlind = 0 the two
\* blinds are one value, 0, and the result is 0 followed by the pool values.
C13_Fractional ==
    /\ (Suggested /\ 0 < smallBlind /\ smallBlind < Dollar /\ numChipTypes >= 2)
          => BlindsThenPool
    /\ (Suggested /\ smallBlind = 0 /\ numChipTypes >= 2)
          => /\ result.values[1] = 0
             /\ \A i \in 2..Len(result.values) : result.values[i] \in EligibleAboveBigBlind

\* A fractional call that returns both blinds and two pool values or more.
C13_Witness ==
    /\ Suggested
    /\ 0 < smallBlind
    /\ smallBlind < Dollar
    /\ numChipTypes >= 4
    /\ Len(result.values) = numChipTypes
    /\ result.values[3] > Dollar

\* C14 (as claimed): suggestChipValues never pads: for every numChipTypes >= 0
\* the returned sequence has at most numChipTypes entries.
C14_NeverPads ==
    Suggested => Len(result.values) <= numChipTypes

\* The integer pool values within [min(smallBlind, 1), max(buyIn / 2, 2 x smallBlind)].
EligibleIntegers ==
    {d \in PoolSet : /\ d % Dollar = 0
                     /\ d >= (IF smallBlind <= Dollar THEN smallBlind ELSE Dollar)
                     /\ 2 * d <= (IF buyIn >= 4 * smallBlind THEN buyIn ELSE 4 * smallBlind)}

\* The member of a set of numbers at index k (from 0) in ascending order.
MemberAt(S, k) == CHOOSE d \in S : Cardinality({e \in S : e < d}) = k

\* The values are the members of the filtered set at the evenly spaced
\* indices round(i x (size - 1) / (numChipTypes - 1)).
EvenlySpaced ==
    LET size == Cardinality(EligibleIntegers)
    IN  /\ Len(result.values) = numChipTypes
        /\ \A i \in 0..numChipTypes - 1 :
              \E idx \in 0..size - 1 :
                 /\ IsRounded(idx, i * (size - 1), numChipTypes - 1)
                 /\ result.values[i + 1] = MemberAt(EligibleIntegers, idx)

\* C15 (as claimed): in the integer-blind mode (smallBlind >= 1), for every
\* numChipTypes >= 1, every returned value is an integer member of the pool
\* within [min(smallBlind, 1), max(buyIn / 2, 2 x smallBlind)], and when the
\* filtered set has more than numChipTypes members the values are its
\* members at the evenly spaced indices.
C15_IntegerMode ==
    (Suggested /\ smallBlind >= Dollar /\ numChipTypes >= 1) =>
        /\ \A i \in 1..Len(result.values) : result.values[i] \in EligibleIntegers
        /\ (Cardinality(EligibleIntegers) > numChipTypes /\ numChipTypes >= 2)
              => EvenlySpaced

\* C16 (as claimed): no value returned by suggestChipValues exceeds buyIn / 2,
\* for every smallBlind > 0, buyIn > 0 and numChipTypes >= 1, in both modes.
C16_AtMostHalfBuyIn ==
    (Suggested /\ smallBlind > 0 /\ buyIn > 0 /\ numChipTypes >= 1) =>
        \A i \in 1..Len(result.values) :
            result.values[i] # Undefined => 2 * result.values[i] <= buyIn

Validated == pc = "validated"

ChipValues == {chips[i].value : i \in 1..Len(chips)}

\* Two values next to each other in ascending order, more than 10 times apart.
HasLargeGap ==
    \E a, b \in ChipValues :
        /\ a < b
        /\ ~\E c \in ChipValues : a < c /\ c < b
        /\ b > 10 * a

\* C17: on a non-empty inventory isOptimal is true exactly when the cheapest
\* value is <= smallBlind, some value is <= 2 x smallBlind and no two values
\* adjacent in ascending order have a ratio above 10; isOptimal is true
\* exactly when the suggestions are empty; the result is the same for every
\* buyIn.
C17_IsOptimal ==
    (Validated /\ Len(chips) > 0) =>
        /\ result.isOptimal <=>
              /\ \A v \in ChipValues : \E w \in ChipValues : w <= v /\ w <= smallBlind
              /\ \E v \in ChipValues : v <= 2 * smallBlind
              /\ ~HasLargeGap
        /\ result.isOptimal <=> (result.suggestions = <<>>)
        /\ \A b \in ValidateBuyIns \cup BuyIns :
              validateChipValues(smallBlind, b, chips) = result

\* An optimal inventory of three distinct values, one of them exactly 10
\* times the one before.
C17_Witness ==
    /\ Validated
    /\ Len(chips) = 3
    /\ result.isOptimal
    /\ \E a, b \in ChipValues : b = 10 * a
    /\ Cardinality(ChipValues) = 3

\* The quantities of the three-or-more-denomination branch, at every step
\* from the first allocation to the return, are within the per-player caps.
WithinCaps ==
    (Len(sortedChips) >= 3 /\ allocations # <<>>) =>
        \A i \in 1..Len(sortedChips) :
            allocations[sortedChips[i].id]
                <= MaxFromInventory(sortedChips[i], numPlayers)

\* C18 (as claimed): with three or more denominations of distinct ids, in both
\* variants, every quantity is at most floor(inventory / numPlayers) of its
\* denomination after every adjustment step, so the stock-shortage warning
\* is never produced in this branch.
C18_CapsAndNoStockWarning ==
    /\ WithinCaps
    /\ (FullReturn /\ Len(chips) >= 3) =>
          /\ \A j \in 1..Len(result.distribution) :
                result.distribution[j].quantity * numPlayers
                    <= OwnChip(result.distribution[j]).quantity
          /\ "stock" \notin KindsOf(result.warnings)

\* C19 (as claimed): the greedy-fill variant with three or more denominations
\* returns totalValue = buyIn and isValid true when buyIn and every value are
\* integer multiples of the smallest value and the per-player cap of the
\* smallest denomination is at least buyIn / smallest.value.
C19_GreedyExactBuyIn ==
    (/\ FullReturn
     /\ variant = "greedy"
     /\ Len(sortedChips) >= 3
     /\ buyIn % sortedChips[1].value = 0
     /\ \A i \in 1..Len(chips) : chips[i].value % sortedChips[1].value = 0
     /\ MaxFromInventory(sortedChips[1], numPlayers) * sortedChips[1].value
            >= buyIn) =>
        /\ result.totalValue = buyIn
        /\ result.isValid

\* ceil(2 x value / smallest.value), stated by its two inequalities.
SwapCost(chip, smallest) ==
    CHOOSE k \in 0..(2 * MaxValue + 2) :
        /\ k * smallest.value >= 2 * chip.value
        /\ (k - 1) * smallest.value < 2 * chip.value

\* The chips of the smallest denomination paid for the denominations
\* before position i whose quantity differs between old and new.
RECURSIVE PaidBefore(_, _, _)
PaidBefore(i, old, new) ==
    IF i <= 2 THEN 0
    ELSE PaidBefore(i - 1, old, new)
         + (IF new[sortedChips[i - 1].id] # old[sortedChips[i - 1].id]
            THEN SwapCost(sortedChips[i - 1], sortedChips[1])
            ELSE 0)

\* C20: in the minimum-2 swap step of the pyramid variant a non-smallest
\* denomination changes only from 0 to 2, only when its per-player cap is
\* >= 2 and the smallest denomination holds at that moment at least
\* ceil(2 x value / smallest.value) + 10 chips; the smallest loses exactly
\* that ceiling for every swap, keeps at least 10 chips after any number
\* of swaps, and the total value does not increase.
C20_SwapStep ==
    [][pc = "swap" =>
        LET smallest == sortedChips[1]
            n == Len(sortedChips)
            swapped == {i \in 2..n :
                           allocations'[sortedChips[i].id] # allocations[sortedChips[i].id]}
        IN  /\ \A i \in swapped :
                  /\ allocations[sortedChips[i].id] = 0
                  /\ allocations'[sortedChips[i].id] = 2
                  /\ sortedChips[i].quantity >= 2 * numPlayers
                  /\ allocations[smallest.id] - PaidBefore(i, allocations, allocations')
                         >= SwapCost(sortedChips[i], smallest) + 10
            /\ allocations'[smallest.id]
                   = allocations[smallest.id] - PaidBefore(n + 1, allocations, allocations')
            /\ swapped # {} => allocations'[smallest.id] >= 10
            /\ AllocatedValue(sortedChips, allocations')
                   <= AllocatedValue(sortedChips, allocations)
    ]_vars

\* After the swap step the allocated value is below the total the earlier
\* steps had reached: a swap has removed more value than it added.
C20_Witness ==
    /\ pc = "finetune"
    /\ AllocatedValue(sortedChips, allocations) < running
    /\ \E i \in 2..Len(sortedChips) : allocations[sortedChips[i].id] = 2
    /\ allocations[sortedChips[1].id] >= 10

\* C25: for smallBlind >= 0 and a non-empty inventory of positive values the
\* suggestion that no denomination is <= 2 x smallBlind never appears without
\* the suggestion that the smallest chip is larger than the small blind.
C25_BlindChipImpliesSmallest ==
    (/\ Validated
     /\ Len(chips) > 0
     /\ smallBlind >= 0
     /\ \A v \in ChipValues : v > 0) =>
        ("considerChip" \in KindsOf(result.suggestions)
            => "smallestLarger" \in KindsOf(result.suggestions))

\* Both suggestions on an inventory of several values, and a positive blind.
C25_Witness ==
    /\ Validated
    /\ Cardinality(ChipValues) >= 2
    /\ smallBlind > 0
    /\ "considerChip" \in KindsOf(result.suggestions)
    /\ "smallestLarger" \in KindsOf(result.suggestions)

PyramidReturn == FullReturn /\ variant = "pyramid" /\ Len(sortedChips) >= 3

PayableBySmallest ==
    /\ buyIn % sortedChips[1].value = 0
    /\ \A i \in 1..Len(sortedChips) :
          sortedChips[i].value % sortedChips[1].value = 0
    /\ MaxFromInventory(sortedChips[1], numPlayers) * sortedChips[1].value >= buyIn

DistinctColors(cs) ==
    \A i, j \in 1..Len(cs) : cs[i].color = cs[j].color => i = j

AscendingByValue(cs) ==
    \A i \in 1..(Len(cs) - 1) : cs[i].value <= cs[i + 1].value

\* C21: after any sequence of add, edit and delete operations starting from
\* the default inventory no two chips share a color, and after each
\* handleSaveChip the inventory is sorted ascending by value.
C21_Inventory ==
    /\ []DistinctColors(chips)
    /\ [][handleSaveChip => AscendingByValue(chips')]_vars

\* The modal has been saved at least twice: a fifth colour is in the
\* inventory and White, re-valued, is no longer the cheapest chip.
C21_Witness ==
    /\ pc = "shell"
    /\ ~modalOpen
    /\ Len(chips) = 5
    /\ chips[1].color # "#FFFFFF"
    /\ \E i \in 1..Len(chips) : chips[i].color = "#FFFFFF"

DistinctNames(ps) ==
    \A i, j \in 1..Len(ps) : ps[i].name = ps[j].name => i = j

HasName(ps, name) == \E i \in 1..Len(ps) : ps[i].name = name

\* What the claim says of a call of savePreset(name, ...) that takes the
\* store from old to new.
SaveEffect(old, new, name) ==
    IF HasName(old, name)
    THEN /\ Len(new) = Len(old)
         /\ \A i \in 1..Len(old) :
               IF old[i].name = name
               THEN new[i].name = name /\ new[i].id = old[i].id
               ELSE new[i] = old[i]
    ELSE /\ Len(new) = Len(old) + 1
         /\ SubSeq(new, 1, Len(old)) = old
         /\ new[Len(new)].name = name

\* What the claim says of a call of deletePreset(id).
DeleteEffect(old, new, id) ==
    /\ \A i \in 1..Len(new) : new[i].id # id
    /\ \E keep \in SUBSET (1..Len(old)) :
          /\ keep = {i \in 1..Len(old) : old[i].id # id}
          /\ Len(new) = Cardinality(keep)
          /\ \A k \in 1..Len(new) :
                \E i \in keep :
                   /\ Cardinality({j \in keep : j <= i}) = k
                   /\ new[k] = old[i]

\* C22 (as claimed): after any sequence of savePreset and deletePreset from
\* an empty store no two presets share a name; every savePreset with an
\* existing name replaces that preset in place and keeps its id, every
\* savePreset with a new name appends one preset, and every deletePreset(id)
\* removes the presets with that id and leaves the others unchanged.
C22_EveryCall ==
    /\ []DistinctNames(presets)
    /\ [][savePreset => SaveEffect(presets, presets', result'.name)]_vars
    /\ [][deletePreset => DeleteEffect(presets, presets', result'.id)]_vars

\* C22 (amended): the same, for the calls that return true; a call that
\* returns false, the write to storage having failed, leaves the store as
\* it was.
C22_CallsThatReturnTrue ==
    /\ []DistinctNames(presets)
    /\ [][(savePreset /\ result'.returned)
             => SaveEffect(presets, presets', result'.name)]_vars
    /\ [][(deletePreset /\ result'.returned)
             => DeleteEffect(presets, presets', result'.id)]_vars
    /\ [][((savePreset \/ deletePreset) /\ ~result'.returned)
             => presets' = presets]_vars

\* Two presets, the first of them replaced after the second was appended.
C22_Witness ==
    /\ pc = "store"
    /\ Len(presets) = 2
    /\ presets[1].updatedAt > presets[2].updatedAt
    /\ result = [call |-> "savePreset", name |-> presets[1].name, returned |-> TRUE]

\* C26 (as claimed): after handleCalculate has reassigned the denominations
\* every chip of the inventory has a defined, positive value and the
\* inventory is ascending by value, for every inventory of one or more
\* chips and every buyIn > 0 and smallBlind > 0.
C26_ValuesDefinedAndSorted ==
    (pc # "clicked" /\ Len(chips) >= 1 /\ buyIn > 0 /\ smallBlind > 0) =>
        /\ \A i \in 1..Len(chips) :
              chips[i].value # Undefined /\ chips[i].value > 0
        /\ AscendingByValue(chips)
====
